---- MODULE Spec2Model ----
(***************************************************************************)
(* A model of the Cadence development pipeline: the phase-guarded          *)
(* ShellRunner (cadence/dev/shell.py, phase_guard.py), the TaskRecord      *)
(* ledger (record.py), the BacklogManager (backlog.py) and the             *)
(* DevOrchestrator cycle (orchestrator.py).                                *)
(*                                                                         *)
(* External tools (git, pytest, the reviewers, the file system under the   *)
(* ledger) are the environment: every exit status or verdict the code      *)
(* branches on is an input chosen with \E.                                 *)
(***************************************************************************)
EXTENDS Integers, Sequences, FiniteSets, TLC

(* --------------------------- bounds ---------------------------------- *)
\* A caller either drives the ShellRunner directly or runs cycles of the
\* orchestrator (which drives its own ShellRunner).
MaxOps == 5        \* direct ShellRunner calls made by a caller
MaxCycles == 1     \* calls of run_task_cycle
MaxSkip == 2       \* ledger rewrites of one step that succeed before a disk fault
MaxFaults == 1     \* consecutive ledger rewrites that one disk fault makes fail
\* number of threads that share one BacklogManager
MaxCallers == 2
\* number of BacklogManager calls the threads make between them
MaxStoreCalls == 2
\* number of threads that share one TaskRecord
MaxSavers == 2
\* number of TaskRecord calls the threads make between them
MaxLedgerCalls == 2
\* number of edits in a ChangeSet
MaxEdits == 2
\* number of tasks a store grows to through failure decomposition
MaxFamily == 5
\* number of processes that use one lock file
MaxProcs == 4
\* number of sub-tasks the reasoning agent returns for one failure
MaxSubtasks == 3

(* --------------------------- vocabulary ------------------------------ *)
Tasks == {"t1", "t2"}
None == "None"

\* BacklogManager keeps the tasks in a list: the order of the store
StoreOrder == <<"t1", "t2">>

\* the id under which _ensure_backlog records a replenishment
ReplenishId == "auto-backlog-replenish"
\* config["backlog_autoreplenish_count"], by default
backlog_autoreplenish_count == 3

\* what may sit in the working tree: a task's patch, or content the user had there
UserContent == "user"
Items == Tasks \cup {UserContent}

BASE == <<"patch_applied", "tests_passed">>
OPTIONAL == <<"review_passed", "efficiency_passed", "branch_isolated">>
Phases ==
  {"patch_applied", "tests_passed", "committed",
   "review_passed", "efficiency_passed", "branch_isolated"}

BaseBranch == "main"
TaskBranch(t) == "task-" \o t
Branches == {BaseBranch} \cup {TaskBranch(t) : t \in Tasks}

\* the task ids a caller uses the ShellRunner with directly
DirectTasks == {"t1"}

Range(q) == {q[i] : i \in 1..Len(q)}

VARIABLES
  phase_flags,     \* ShellRunner._phase_flags : task id -> set of phase labels
  current_task,    \* ShellRunner._current_task (a task id, or None)
  history,         \* TaskRecord: task id -> sequence of snapshots
  status,          \* BacklogManager: task id -> status
  material,        \* BacklogManager: the tasks that carry patch, change_set or diff
  placeholders,    \* BacklogManager: generated open tasks without patch material
  branch,          \* the branch checked out in repo_dir
  heads,           \* existing branch -> content committed on it
  work,            \* content added to the working tree and not committed
  gone,            \* committed content that the working tree has reverted
  exercised,       \* task id -> the optional gates that were run for the task
  last,            \* what the caller of the last ShellRunner call observed
  pc,              \* position of run_task_cycle ("idle" outside a cycle)
  task,            \* run_task_cycle's local `task`
  rollback_patch,  \* run_task_cycle's local `rollback_patch`
  run_result,      \* what the last run_task_cycle returned (or that it raised)
  cyc,             \* facts about the current / last cycle, kept for the properties
  ops,             \* number of direct calls made
  cycles,          \* number of cycles started
  items,           \* BacklogManager._items as its concurrent callers see it
  disk,            \* the backlog file, its .tmp sibling and the files behind them
  callers,         \* thread -> where it is in its BacklogManager call
  listed,          \* what the last list_items call returned
  calls,           \* the BacklogManager calls made so far
  records,         \* TaskRecord._records as its concurrent callers see it
  idmap,           \* TaskRecord._idmap : task id -> its record (position, 0: none)
  lock,            \* TaskRecord._lock : the owning thread and its hold count
  record_file,     \* what the ledger file holds
  savers,          \* thread -> where it is in its TaskRecord call
  heap,            \* the dicts the callers and the ledger hold: object -> value
  written,         \* every snapshot as it was when save appended it
  saves,           \* task id -> number of save calls made for it
  reads,           \* number of append_iteration and load calls made
  built,           \* the call of patch_builder.build_patch observed last, and its outcome
  family,          \* the store a FailureResponder works on: task -> parent, status
  mutex,           \* the lock file of a FileMutex and the processes that use it
  before_sha,      \* task -> the before_sha of the edit in its ChangeSet
  files            \* whether the backlog file / the ledger file, which lie untracked in
                   \* the repository directory, exist and hold what is in memory

shellVars == <<phase_flags, current_task, history, branch, heads, work, gone>>
orchVars == <<pc, task, rollback_patch, run_result, cyc>>
pipelineVars ==
  <<phase_flags, current_task, history, status, material, placeholders, branch,
    heads, work, gone, exercised, last, pc, task, rollback_patch, run_result, cyc,
    ops, cycles, built, family, mutex, before_sha, files>>
storeVars == <<items, disk, callers, listed, calls>>
ledgerVars == <<records, idmap, lock, record_file, savers, heap, written, saves, reads>>
vars == <<pipelineVars, storeVars, ledgerVars>>

(* ------------------------- the ledger -------------------------------- *)
\* one history snapshot: the state label, the task copy (its status), and the
\* auxiliary payload (error text, the missing phases it lists, captured output)
Snap(state, st, error, missing, output) ==
  [state |-> state, status |-> st, error |-> error, missing |-> missing,
   output |-> output]

\* TaskRecord.save: the snapshot is appended to the record in memory, then the
\* whole ledger is rewritten; io_failed tells that the rewrite raised OSError
\* (io_any: that some rewrite of the step did).
\* s.skip and s.faults are the disk's schedule: the next s.skip rewrites
\* succeed, the s.faults after them fail
Save(s, tid, state, error, missing, output) ==
  [s EXCEPT !.hist[tid] =
              Append(@, Snap(state,
                             IF tid \in DOMAIN s.status THEN s.status[tid] ELSE None,
                             error, missing, output)),
            !.skip = IF @ > 0 THEN @ - 1 ELSE 0,
            !.faults = IF s.skip = 0 /\ @ > 0 THEN @ - 1 ELSE @,
            !.files.ledger = ~(s.skip = 0 /\ s.faults > 0),
            !.io_failed = (s.skip = 0 /\ s.faults > 0),
            !.io_any = @ \/ (s.skip = 0 /\ s.faults > 0)]

\* a result of run_task_cycle: {"success": ..., "stage": ..., <detail>}
Result(success, stage, detail) ==
  [success |-> success, stage |-> stage, detail |-> detail]

NoResult == Result(None, None, None)

(* ------------------------- ShellRunner ------------------------------- *)
\* the part of the program state a ShellRunner call reads and writes
ShellState ==
  [flags |-> phase_flags, cur |-> current_task, hist |-> history,
   skip |-> 0, faults |-> 0, io_failed |-> FALSE, io_any |-> FALSE,
   status |-> status, sha |-> before_sha, files |-> files,
   branch |-> branch, heads |-> heads, work |-> work, gone |-> gone,
   raised |-> None, ret |-> None, ran |-> {}, failed |-> {}, resets |-> 0,
   rb |-> rollback_patch, ctl |-> "next", res |-> NoResult]

_has_phase(s, tid, phase) == phase \in s.flags[tid]

_mark_phase(s, tid, phase) == [s EXCEPT !.flags[tid] = @ \cup {phase}]

\* ShellRunner._record_failure: a no-op without an attached task; a ledger
\* error is swallowed (the snapshot is in the in-memory record all the same)
_record_failure(s, state, error, missing, output) ==
  IF s.cur = None THEN s
  ELSE Save(s, s.cur, state, error, missing, output)

Raise(s, exc) == [s EXCEPT !.raised = exc]
Return(s, value) == [s EXCEPT !.ret = value]
\* one external command run through subprocess.run; ok: it exited with 0
Run(s, cmd, ok) ==
  [s EXCEPT !.ran = @ \cup {cmd},
            !.failed = IF ok THEN @ ELSE @ \cup {cmd}]

\* the files of the working tree: what is committed on the checked-out branch,
\* less what the tree reverted, plus what was added to it
Content(s) == (s.heads[s.branch] \ s.gone) \cup s.work

\* ShellRunner.attach_task: _init_phase_tracking is a setdefault, so the flags
\* already recorded for the id are kept
attach_task(s, t) == [s EXCEPT !.cur = t]

\* ShellRunner.git_checkout_branch.  listOk / coOk: exit status of
\* `git branch --list` and of the `git checkout [-b]` that follows
CheckoutTarget(s, b) ==
  IF b \in DOMAIN s.heads THEN s.heads[b]
  ELSE IF BaseBranch \in DOMAIN s.heads THEN s.heads[BaseBranch]
  ELSE s.heads[s.branch]

git_checkout_branch(s, b, listOk, coOk) ==
  IF ~listOk THEN Raise(Run(s, "git branch", FALSE), "ShellCommandError")
  ELSE IF ~coOk
  THEN Raise(Run(Run(s, "git branch", TRUE), "git checkout", FALSE),
             "ShellCommandError")
  ELSE LET tgt == CheckoutTarget(s, b)
           s1 == [Run(Run(s, "git branch", TRUE), "git checkout", TRUE) EXCEPT
                    !.branch = b,
                    !.heads = [x \in DOMAIN s.heads \cup {b} |->
                                 IF x = b THEN tgt ELSE s.heads[x]]]
       IN IF s.cur # None THEN _mark_phase(s1, s.cur, "branch_isolated") ELSE s1

\* whether `git checkout` can succeed: the uncommitted changes must carry over
CheckoutCanPass(s, b) ==
  /\ s.work \cap CheckoutTarget(s, b) = {}
  /\ s.gone \subseteq CheckoutTarget(s, b)

\* a decorator that records the mark whether or not the wrapped method raised
enforce_phase_always(r, mark) ==
  IF r.cur # None THEN [r EXCEPT !.flags[r.cur] = @ \cup {mark}] ELSE r

\* enforce_phase(mark=...): the wrapped method runs (no required phases are
\* declared for git_apply); the mark is recorded when it returned and a task
\* is attached
enforce_phase(r, mark) ==
  IF r.raised = None /\ r.cur # None THEN _mark_phase(r, r.cur, mark) ELSE r

\* whether `git apply [-R] --check` can succeed on the current tree
ApplyCanPass(s, patch, reverse) ==
  IF reverse THEN patch \in Content(s) ELSE patch \notin Content(s)

ApplyStage(reverse) == IF reverse THEN "git_apply_reverse" ELSE "git_apply"

\* the real `git apply [-R]`: the tree gains (or, reversed, loses) the patch
ApplyToTree(s, patch, reverse) ==
  IF reverse
  THEN IF patch \in s.work THEN [s EXCEPT !.work = @ \ {patch}]
       ELSE [s EXCEPT !.gone = @ \cup {patch}]
  ELSE IF patch \in s.gone THEN [s EXCEPT !.gone = @ \ {patch}]
       ELSE [s EXCEPT !.work = @ \cup {patch}]

\* the body of ShellRunner.git_apply.  patch = None is the empty patch;
\* checkOk / applyOk: exit status of the dry run and of the real apply
git_apply_body(s, patch, reverse, checkOk, applyOk) ==
  LET failed == "failed_" \o ApplyStage(reverse) IN
  IF patch = None
  THEN Raise(_record_failure(s, failed, "No patch supplied to apply.", <<>>, FALSE),
             "ShellCommandError")
  ELSE IF ~checkOk
  THEN Raise(_record_failure(Run(s, "git apply --check", FALSE), failed,
                             "Patch pre-check failed", <<>>, TRUE),
             "ShellCommandError")
  ELSE LET s1 == Run(s, "git apply --check", TRUE) IN
  IF ~applyOk
  THEN Raise(_record_failure(Run(s1, "git apply", FALSE), failed,
                             "git apply failed", <<>>, TRUE),
             "ShellCommandError")
  ELSE Return(ApplyToTree(Run(s1, "git apply", TRUE), patch, reverse), "True")

\* ShellRunner.git_apply as decorated with @enforce_phase(mark="patch_applied")
git_apply(s, patch, reverse, checkOk, applyOk) ==
  enforce_phase(git_apply_body(s, patch, reverse, checkOk, applyOk), "patch_applied")

\* a run_pytest that treats red tests like a missing tests path: it records
\* the failure and raises instead of returning the result
run_pytest_raising(s, pathOk, passed) ==
  IF ~pathOk \/ ~passed
  THEN Raise(_record_failure(IF pathOk THEN Run(s, "pytest", FALSE) ELSE s,
                             "failed_pytest", "pytest failed", <<>>, pathOk),
             "ShellCommandError")
  ELSE Return(IF s.cur # None
              THEN _mark_phase(Run(s, "pytest", TRUE), s.cur, "tests_passed")
              ELSE Run(s, "pytest", TRUE), "success")

\* ShellRunner.run_pytest.  pathOk: the tests path exists; passed: pytest's
\* exit status was 0
run_pytest(s, pathOk, passed) ==
  IF ~pathOk
  THEN Raise(_record_failure(s, "failed_pytest", "Tests path does not exist.",
                             <<>>, FALSE),
             "ShellCommandError")
  ELSE IF passed
  THEN Return(IF s.cur # None
              THEN _mark_phase(Run(s, "pytest", TRUE), s.cur, "tests_passed")
              ELSE Run(s, "pytest", TRUE), "success")
  ELSE Return(_record_failure(Run(s, "pytest", FALSE), "failed_pytest",
                              "pytest failed", <<>>, TRUE), "failure")

\* a prerequisite check that forgets the second unconditional prerequisite
CommitMissingOnlyApplied(flags) ==
  SelectSeq(<<"patch_applied">>, LAMBDA f : f \notin flags)

\* a prerequisite check that names every unconditional prerequisite as soon
\* as one of them is missing
CommitMissingAllBase(flags) ==
  IF \E i \in 1..Len(BASE) : BASE[i] \notin flags THEN BASE ELSE <<>>

\* the prerequisite check of ShellRunner.git_commit
CommitMissing(flags) ==
  SelectSeq(BASE, LAMBDA f : f \notin flags)
    \o SelectSeq(OPTIONAL, LAMBDA f : f \in flags /\ f \notin flags)

\* `git commit` of everything staged by `git add -A`
CommitTree(s) ==
  [s EXCEPT !.heads[s.branch] = (@ \ s.gone) \cup s.work, !.work = {}, !.gone = {}]

\* whether `git commit` has anything to commit
CommitCanPass(s) == s.work # {} \/ s.gone # {}

\* ShellRunner.git_commit.  addOk / commitOk / shaOk: exit status of
\* `git add -A`, `git commit -m`, `git rev-parse HEAD`
git_commit(s, addOk, commitOk, shaOk) ==
  IF s.cur = None THEN Return(s, None)
  ELSE LET missing == CommitMissing(s.flags[s.cur]) IN
  IF missing # <<>>
  THEN Raise(_record_failure(s, "failed_git_commit", "missing prerequisite phase(s)",
                             missing, FALSE),
             "ShellCommandError")
  ELSE IF ~addOk
  THEN Raise(_record_failure(Run(s, "git add", FALSE), "failed_git_commit",
                             "git add failed", <<>>, TRUE),
             "ShellCommandError")
  ELSE IF ~commitOk
  THEN Raise(_record_failure(Run(Run(s, "git add", TRUE), "git commit", FALSE),
                             "failed_git_commit", "git commit failed", <<>>, TRUE),
             "ShellCommandError")
  ELSE LET s1 == CommitTree(Run(Run(s, "git add", TRUE), "git commit", TRUE)) IN
  IF ~shaOk
  THEN Raise(_record_failure(Run(s1, "git rev-parse", FALSE), "failed_git_commit",
                             "rev-parse failed", <<>>, TRUE),
             "CalledProcessError")
  ELSE Return(_mark_phase(Run(s1, "git rev-parse", TRUE), s.cur, "committed"), "sha")

\* ShellRunner.git_reset_hard: `git reset --hard` then `git clean -fdx`, both
\* through _run (check=False), whose exit status is not looked at.
\* resetOk / cleanOk: whether the two commands did their work; `git clean
\* -fdx` removes every untracked file of the repository directory
git_reset_hard(s, resetOk, cleanOk) ==
  [Run(Run(s, "git reset", resetOk), "git clean", cleanOk) EXCEPT
     !.resets = @ + 1,
     !.files = IF cleanOk THEN [backlog |-> FALSE, ledger |-> FALSE] ELSE @,
     !.work = IF resetOk /\ cleanOk THEN {} ELSE @,
     !.gone = IF resetOk THEN {} ELSE @]

\* the schedules of the disk under the ledger during one step: no fault, or
\* n failing rewrites after k good ones
IoSchedules ==
  {<<0, 0>>} \cup {<<k, n>> : k \in 0..MaxSkip, n \in 1..MaxFaults}

\* the state a step of the orchestrator starts in, under the schedule io
OrchState(io) == [ShellState EXCEPT !.skip = io[1], !.faults = io[2]]

(* ------------------------- DevOrchestrator --------------------------- *)
Caught(s) == [s EXCEPT !.raised = None]
Stop(s, res) == [s EXCEPT !.ctl = "return", !.res = res]

\* the statement after s: its outcome r, unless an exception is propagating
\* from s or the cycle has returned in s
Then(s, r) == IF s.raised # None \/ s.ctl = "return" THEN s ELSE r

\* `return res`, unless an exception is propagating from s
ThenStop(s, res) == Then(s, Stop(s, res))

\* DevOrchestrator._record: TaskRecord.save inside `except TaskRecordError`;
\* the OSError of a failed rewrite is no TaskRecordError and propagates
_record(s, tid, state, error) ==
  LET r == Save(s, tid, state, error, <<>>, FALSE) IN
  IF r.io_failed THEN Raise(r, "OSError") ELSE r

\* DevOrchestrator._attempt_rollback.  git_reset_hard raises no
\* ShellCommandError, so the rollback_failed branch is never taken;
\* failure_responder.handle_failure(task, src_stage) is called with positional
\* arguments, raises TypeError (its parameters are keyword-only) and the
\* `except Exception` around it swallows that
_attempt_rollback(s, tid, resetOk, cleanOk) ==
  LET a == _record(s, tid, "rollback_started", "")
      b == Then(a, git_reset_hard(a, resetOk, cleanOk))
  IN Then(b, _record(b, tid, "rollback_succeeded", ""))

\* the `except Exception` branch of run_task_cycle: a rollback when a task
\* was selected and a patch was built, whatever had been applied
Handler(s, tid, resetOk, cleanOk) ==
  IF tid # None /\ s.rb # None
  THEN _attempt_rollback(Caught(s), tid, resetOk, cleanOk)
  ELSE Caught(s)

\* the backlog files a DevOrchestrator is constructed on: the status of
\* each task and the tasks that carry patch material
Stores ==
  { [status |-> [t \in Tasks |-> "open"], material |-> Tasks],
    [status |-> [t \in Tasks |-> "open"], material |-> {"t2"}],
    [status |-> [t \in Tasks |-> IF t = "t1" THEN "done" ELSE "blocked"],
     material |-> {"t1"}],
    [status |-> [t \in Tasks |-> IF t = "t1" THEN "open" ELSE "done"],
     material |-> {}] }

\* a replenishment test that never asks for tasks
NeedsReplenishNever(st, ph) == FALSE

\* _ensure_backlog: `not self.backlog.list_items("open")`; ph is the number
\* of generated (open) tasks in the store
NeedsReplenish(st, ph) == ph = 0 /\ \A t \in Tasks : st[t] # "open"

\* step 1 of run_task_cycle: the open tasks that carry patch material, in
\* store order
Executable(st, mat) == SelectSeq(StoreOrder, LAMBDA t : st[t] = "open" /\ t \in mat)

\* branch isolation (orchestrator.py 284-291)
IsolateBranch(s, tid, listOk, coOk) ==
  LET r == git_checkout_branch(s, TaskBranch(tid), listOk, coOk) IN
  IF r.raised = "ShellCommandError"
  THEN ThenStop(_record(Caught(r), tid, "failed_branch_isolation", "error"),
                Result("False", "branch_isolation", "error"))
  ELSE r

\* build patch (orchestrator.py 293-339).  outcome: what
\* TaskExecutor.build_patch did with the task's patch material
BuildPatch(s, tid, outcome) ==
  LET a == _record(s, tid, "build_patch", "")
      blocked == [a EXCEPT !.status[tid] = "blocked", !.files.backlog = TRUE]
  IN Then(a,
       IF outcome = "ok"
       THEN _record([a EXCEPT !.rb = tid], tid, "patch_built", "")
       ELSE IF outcome = "invalid"
       THEN ThenStop(_record(blocked, tid, "invalid_change_set", "error"),
                     Result("False", "change_set_validation", "error"))
       ELSE ThenStop(_record(a, tid, "failed_build_patch", "error"),
                     Result("False", "build_patch", "error")))

\* review 1, reasoning (orchestrator.py 342-358)
ReviewReasoning(s, tid, pass) ==
  LET a == _record(s, tid, "patch_reviewed", "")
      b == Then(a, _record(a, tid, "patch_reviewed_reasoning", ""))
  IN Then(b,
       IF ~pass
       THEN ThenStop(_record(b, tid, "failed_patch_review_reasoning", "review"),
                     Result("False", "patch_review_reasoning", "review"))
       ELSE _mark_phase(b, tid, "review_passed"))

\* review 2, efficiency (orchestrator.py 360-412).  verdict "raise": the
\* legacy path's efficiency.run_interaction raised
ReviewEfficiency(s, tid, verdict) ==
  LET marked == IF verdict = "pass" THEN _mark_phase(s, tid, "efficiency_passed")
                ELSE s
      a == _record(marked, tid, "patch_reviewed_efficiency", "")
  IN IF verdict = "raise" THEN Raise(s, "Exception")
     ELSE Then(a,
            IF verdict = "pass" THEN a
            ELSE ThenStop(_record(a, tid, "failed_patch_review_efficiency", "review"),
                          Result("False", "patch_review_efficiency", "review")))

\* apply (orchestrator.py 418-426); g is what shell.git_apply(patch) left
AfterApply(g, tid) ==
  IF g.raised = "ShellCommandError"
  THEN ThenStop(_record(Caught(g), tid, "failed_patch_apply", "error"),
                Result("False", "patch_apply", "error"))
  ELSE _record(g, tid, "patch_applied", "")

\* run tests (orchestrator.py 428-437); g is what shell.run_pytest() left.
\* A ShellCommandError of run_pytest is not caught here
AfterTests(g, tid, resetOk, cleanOk) ==
  LET a == _record(g, tid, "pytest_run", "")
      b == Then(a, _record(a, tid, "failed_test", "pytest"))
      c == Then(b, _attempt_rollback(b, tid, resetOk, cleanOk))
  IN Then(g, IF g.ret = "success" THEN a
             ELSE ThenStop(c, Result("False", "test", "test_result")))

\* an archive step that leaves the done tasks as they are
archive_completed_skipped(st) == st

\* BacklogManager.archive_completed
archive_completed(st) ==
  [t \in DOMAIN st |-> IF st[t] = "done" THEN "archived" ELSE st[t]]

\* hashlib.sha1 of the file the ChangeSets edit, as it stands in tree: the
\* file has its original content ("x", SHA-1 "sha-x") until a task's patch is
\* in the tree ("y", SHA-1 "sha-y")
_sha1_of_file(tree) == IF tree \cap Tasks = {} THEN "sha-x" ELSE "sha-y"

\* TaskExecutor.propagate_before_sha with the file_shas the orchestrator
\* computes from the working tree (src_root being the repository): every
\* open task with a ChangeSet gets the SHA-1 of the file as committed
propagate_before_sha(s, mat) ==
  [s EXCEPT !.sha = [t \in Tasks |->
                       IF s.status[t] = "open" /\ t \in mat
                       THEN _sha1_of_file(Content(s)) ELSE @[t]],
            !.files.backlog = @ \/ \E t \in mat : s.status[t] = "open"]

\* commit, before_sha hot-fix, mark done, archive (orchestrator.py 439-473);
\* g is what shell.git_commit(commit_msg) left
AfterCommit(g, tid, resetOk, cleanOk) ==
  LET f == _record(Caught(g), tid, "failed_commit", "error")
      a0 == _record(g, tid, "committed", "")
      a == Then(a0, propagate_before_sha(a0, material))
      b == Then(a, _record([a EXCEPT !.status[tid] = "done", !.files.backlog = TRUE],
                           tid, "status_done", ""))
      c == Then(b, _record([b EXCEPT !.status = archive_completed(@)], tid,
                           "archived", ""))
  IN IF g.raised = "ShellCommandError"
     THEN ThenStop(Then(f, _attempt_rollback(f, tid, resetOk, cleanOk)),
                   Result("False", "commit", "error"))
     ELSE Then(g, ThenStop(c, Result("True", None, "commit")))

(* ------------------- what a caller observes -------------------------- *)
NoSnap == Snap(None, None, "", <<>>, FALSE)

\* the snapshot a call appended to the record of task tid, if it appended one
Appended(s, r, tid) ==
  IF tid # None /\ Len(r.hist[tid]) > Len(s.hist[tid])
  THEN r.hist[tid][Len(r.hist[tid])] ELSE NoSnap

\* the outcome of one ShellRunner call: s is the state it was called in, r the
\* state it left
Observed(op, reverse, s, r) ==
  [op |-> op, reverse |-> reverse, tid |-> s.cur,
   raised |-> r.raised, ret |-> r.ret, ran |-> r.ran, failed |-> r.failed,
   flags_before |-> IF s.cur = None THEN {} ELSE s.flags[s.cur],
   flags_after |-> IF s.cur = None THEN {} ELSE r.flags[s.cur],
   tree_changed |-> Content(r) # Content(s) \/ r.work # s.work \/ r.gone # s.gone,
   committed |-> r.heads[r.branch] # CheckoutTarget(s, r.branch),
   snap |-> Appended(s, r, s.cur)]

NoCall ==
  [op |-> None, reverse |-> FALSE, tid |-> None, raised |-> None, ret |-> None,
   ran |-> {}, failed |-> {}, flags_before |-> {}, flags_after |-> {}, tree_changed |-> FALSE,
   committed |-> FALSE, snap |-> NoSnap]

\* the ShellRunner's part of the state after a call left it in r
ShellUpdate(r) ==
  /\ phase_flags' = r.flags
  /\ current_task' = r.cur
  /\ history' = r.hist
  /\ branch' = r.branch
  /\ heads' = r.heads
  /\ work' = r.work
  /\ gone' = r.gone

(* ------------- BacklogManager under concurrent callers --------------- *)
\* the threads that call one BacklogManager instance
Callers == 1..MaxCallers

\* the statuses the callers give to tasks
Statuses == {"open", "done", "blocked"}

NewTask(id, st) == [id |-> id, status |-> st]

\* the statuses a task may have
VALID_STATUSES == {"open", "in_progress", "done", "archived", "blocked"}

\* BacklogManager._normalize_task: a copy of the task with its defaults
\* filled in; the status given by the caller is kept as it is
_normalize_task(id, st) == NewTask(id, st)

\* a list_items whose "open" means "not finished": everything that is
\* neither done nor archived
list_items_unfinished(its, st) ==
  IF st = "all" THEN its
  ELSE IF st = "open" THEN SelectSeq(its, LAMBDA t : t.status \notin {"done", "archived"})
  ELSE SelectSeq(its, LAMBDA t : t.status = st)

\* BacklogManager.list_items
list_items(its, st) ==
  IF st = "all" THEN its ELSE SelectSeq(its, LAMBDA t : t.status = st)

\* BacklogManager._task_index: the position of the task with this id (0: none)
_task_index(its, id) ==
  IF \E i \in 1..Len(its) : its[i].id = id
  THEN CHOOSE i \in 1..Len(its) : its[i].id = id /\ \A j \in 1..(i - 1) : its[j].id # id
  ELSE 0

\* a file: its length counted in tasks, whether a JSON parser accepts it,
\* and the task list the parser finds
Corrupt(n) == [len |-> n, ok |-> FALSE, val |-> <<>>]
\* a file that was just created or truncated: nothing to parse
EmptyFile == Corrupt(0)
\* no file behind a name
NoFile == 0

\* the file f after a handle positioned at its start wrote the dump of buf:
\* a shorter dump leaves the tail of what the file held behind it
Overlay(f, buf) ==
  IF Len(buf) >= f.len THEN [len |-> Len(buf), ok |-> TRUE, val |-> buf]
  ELSE Corrupt(f.len)

\* open(tmp_path, "w"): the file behind the name is created, or truncated
OpenTmp(d) ==
  IF d.tmp = NoFile
  THEN [d EXCEPT !.tmp = Len(d.inodes) + 1, !.inodes = Append(@, EmptyFile)]
  ELSE [d EXCEPT !.inodes[d.tmp] = EmptyFile]

\* os.replace(tmp_path, path)
Replace(d) == [d EXCEPT !.path = d.tmp, !.tmp = NoFile]

\* the backlog file as a reader finds it
OnDisk ==
  IF disk.path = NoFile THEN [exists |-> FALSE, ok |-> FALSE, val |-> <<>>]
  ELSE [exists |-> TRUE, ok |-> disk.inodes[disk.path].ok,
        val |-> disk.inodes[disk.path].val]

Idle == [pc |-> "idle", op |-> None, buf |-> <<>>, fh |-> 0, k |-> 0, n |-> 0]

\* what the last read returned: refs are the positions in _items of the
\* stored dicts that the caller now holds, edited tells whether the caller
\* has written into what it holds
NoList == [query |-> None, result |-> <<>>, blocked |-> {}, refs |-> {}, edited |-> FALSE]

\* BacklogManager(path) on a path that does not exist yet
StoreInit ==
  /\ items = <<>>
  /\ disk = [path |-> NoFile, tmp |-> NoFile, inodes |-> <<>>]
  /\ callers = [p \in Callers |-> Idle]
  /\ listed = NoList
  /\ calls = [adds |-> 0, writes |-> 0, reads |-> 0, rejected |-> 0, raised |-> FALSE]

(* --------------- TaskRecord under concurrent callers ----------------- *)
\* the threads that call one TaskRecord instance; thread p records the task
\* with id p
Savers == 1..MaxSavers

\* the dicts thread p passes to save: its task and its payload
TaskObj(p) == p
ExtraObj(p) == MaxSavers + p

\* the state labels the callers save
Labels == {"init", "done"}

\* a copy that shares the object with its original
shallowcopy(h, o) == [heap |-> h, ref |-> o]

\* copy.deepcopy(o): a new object with the value o has now
deepcopy(h, o) == [heap |-> Append(h, h[o]), ref |-> Len(h) + 1]

\* a threading.Lock: the thread that holds it cannot take it again
CanAcquirePlain(l, p) == l.owner = 0

\* threading.RLock: free, or held by the thread that asks
CanAcquire(l, p) == l.owner \in {0, p}

Acquire(l, p) == [owner |-> p, count |-> l.count + 1]

Release(l) ==
  IF l.count <= 1 THEN [owner |-> 0, count |-> 0] ELSE [l EXCEPT !.count = @ - 1]

\* TaskRecord._sync_idmap: {rec["task_id"]: rec for rec in self._records}
_sync_idmap(recs) ==
  [t \in Savers |->
     IF \E i \in 1..Len(recs) : recs[i].task_id = t
     THEN CHOOSE i \in 1..Len(recs) :
            recs[i].task_id = t /\ \A j \in (i + 1)..Len(recs) : recs[j].task_id # t
     ELSE 0]

\* TaskRecord._find_or_create_record: the records and the idmap it leaves
_find_or_create_record(recs, idm, tid) ==
  IF idm[tid] # 0 THEN [records |-> recs, idmap |-> idm]
  ELSE [records |-> Append(recs, [task_id |-> tid, history |-> <<>>, iterations |-> 0]),
        idmap |-> [idm EXCEPT ![tid] = Len(recs) + 1]]

\* what json.dump writes for the records: every snapshot with the values of
\* its task copy and of its payload
Dumped(recs, h) ==
  [i \in 1..Len(recs) |->
     [task_id |-> recs[i].task_id, iterations |-> recs[i].iterations,
      history |-> [j \in 1..Len(recs[i].history) |->
                     [state |-> recs[i].history[j].state,
                      task |-> h[recs[i].history[j].task],
                      extra |-> h[recs[i].history[j].extra]]]]]

Outside == [pc |-> "idle", op |-> None, state |-> None, got |-> 0]

\* TaskRecord(record_file) on a path that does not exist yet
LedgerInit ==
  /\ records = <<>>
  /\ idmap = [t \in Savers |-> 0]
  /\ lock = [owner |-> 0, count |-> 0]
  /\ record_file = <<>>
  /\ savers = [p \in Savers |-> Outside]
  /\ heap = [o \in 1..(2 * MaxSavers) |-> 0]
  /\ written = <<>>
  /\ saves = [t \in Savers |-> 0]
  /\ reads = 0

(* ------------------- patch_builder.build_patch ----------------------- *)
\* The repository holds one file; its content is "absent", "x" or "y".  A
\* FileEdit of that file is [mode, after, before_sha]; the SHA-1 of content
\* c is written "sha-" followed by c.

\* ChangeSet.validate_against_repo: FALSE when it raises RuntimeError, for
\* an edit with a before_sha whose file is missing or has another SHA-1
validate_against_repo(tree, edits) ==
  \A k \in 1..Len(edits) :
    edits[k].before_sha # None =>
      /\ tree # "absent"
      /\ edits[k].before_sha = (IF tree = "x" THEN "sha-x" ELSE "sha-y")

\* _apply_edit_to_shadow: the file of the shadow tree after the edit
\* ("raise": PatchBuildError, `after` is required unless the mode is delete)
_apply_edit_to_shadow(edit, shadow) ==
  IF shadow = "raise" THEN "raise"
  ELSE IF edit.mode = "delete" THEN "absent"
  ELSE IF edit.after = None THEN "raise"
  ELSE edit.after

\* a dry run whose verdict is not looked at
_ensure_patch_applies_unchecked(patch, applies) == TRUE

\* _ensure_patch_applies: FALSE when it raises PatchBuildError; applies is
\* the verdict of `git apply --check` on the patch
_ensure_patch_applies(patch, applies) == applies

\* a build that copies the repository to the shadow directory before it
\* validates the ChangeSet
build_patch_copy_first(tree, edits, diffOk, applies) ==
  LET shadow[k \in 0..Len(edits)] ==
        IF k = 0 THEN tree ELSE _apply_edit_to_shadow(edits[k], shadow[k - 1])
      after == shadow[Len(edits)]
      patch == IF after = tree THEN <<>> ELSE <<tree, after>>
      Raised(exc) == [raised |-> exc, patch |-> <<>>, dry_run |-> FALSE, copied |-> TRUE]
  IN IF ~validate_against_repo(tree, edits) THEN Raised("RuntimeError")
     ELSE IF after = "raise" \/ ~diffOk \/ patch = <<>> THEN Raised("PatchBuildError")
     ELSE IF ~_ensure_patch_applies(patch, applies) THEN Raised("PatchBuildError")
     ELSE [raised |-> None, patch |-> patch, dry_run |-> applies, copied |-> TRUE]

\* build_patch(change_set, repo_dir).  diffOk: `git diff --no-index` exited
\* with 0 or 1.  The patch is the pair <<old content, new content>> of the
\* file, <<>> when the shadow tree equals the repository; copied tells
\* whether shutil.copytree made the shadow copy.  The repository itself is
\* only read
build_patch(tree, edits, diffOk, applies) ==
  LET shadow[k \in 0..Len(edits)] ==
        IF k = 0 THEN tree ELSE _apply_edit_to_shadow(edits[k], shadow[k - 1])
      after == shadow[Len(edits)]
      patch == IF after = tree THEN <<>> ELSE <<tree, after>>
      Raised(exc, copied) ==
        [raised |-> exc, patch |-> <<>>, dry_run |-> FALSE, copied |-> copied]
  IN IF ~validate_against_repo(tree, edits) THEN Raised("RuntimeError", FALSE)
     ELSE IF after = "raise" \/ ~diffOk \/ patch = <<>> THEN Raised("PatchBuildError", TRUE)
     ELSE IF ~_ensure_patch_applies(patch, applies) THEN Raised("PatchBuildError", TRUE)
     ELSE [raised |-> None, patch |-> patch, dry_run |-> applies, copied |-> TRUE]

(* ------------------------- initial state ----------------------------- *)
\* what happened in the current (or the last) cycle; select tells how
\* selection ended and is kept until branch isolation has run
NoCycle ==
  [tid |-> None, ended |-> None, start |-> {}, hist0 |-> 0,
   review1 |-> None, review2 |-> None, apply_called |-> FALSE, applied |-> FALSE,
   tests |-> None, commit_made |-> FALSE, commit_ok |-> FALSE, resets |-> 0,
   at_apply |-> {}, at_build |-> <<>>, ledger_failed |-> FALSE,
   replenished |-> FALSE, select |-> None, build |-> None]

Init ==
  /\ phase_flags = [t \in Tasks |-> {}]
  /\ current_task = None
  /\ history = [t \in Tasks \cup {ReplenishId} |-> <<>>]
  /\ placeholders = 0
  /\ status = [t \in Tasks |-> "open"]
  /\ material = Tasks
  /\ branch = BaseBranch
  /\ heads = [b \in {branch} |-> {}]
  /\ work \in {{}, {UserContent}}
  /\ gone = {}
  /\ exercised = [t \in Tasks |-> {}]
  /\ last = NoCall
  /\ pc = "idle"
  /\ task = None
  /\ rollback_patch = None
  /\ run_result = NoResult
  /\ cyc = NoCycle
  /\ ops = 0
  /\ cycles = 0
  /\ StoreInit
  /\ LedgerInit
  /\ built = [tree |-> None, edits |-> <<>>, result |-> None]
  /\ before_sha = [t \in Tasks |-> None]
  /\ files = [backlog |-> TRUE, ledger |-> TRUE]
  /\ family = <<[parent |-> 0, status |-> "open"]>>
  /\ mutex = [platform |-> None, holder |-> 0,
              at |-> [p \in 1..MaxProcs |-> "out"],
              acquired |-> [p \in 1..MaxProcs |-> FALSE]]

(* -------------- direct calls of the ShellRunner API ------------------ *)
\* the gate `gate` was run for task tid
Exercise(tid, gate) ==
  IF tid = None THEN exercised
  ELSE [exercised EXCEPT ![tid] = @ \cup {gate}]

\* a direct call is what the caller observed last: the observations of the
\* cycle before it are dropped
DirectCall(op, reverse, r) ==
  /\ ShellUpdate(r)
  /\ last' = Observed(op, reverse, ShellState, r)
  /\ ops' = ops + 1
  /\ run_result' = NoResult
  /\ cyc' = NoCycle
  /\ files' = r.files
  /\ UNCHANGED <<status, before_sha, material, placeholders, pc, task, rollback_patch,
                 cycles>>
  /\ UNCHANGED <<storeVars, ledgerVars, built, family, mutex>>

CanCall == pc = "idle" /\ cycles = 0 /\ ops < MaxOps

AttachTask ==
  /\ CanCall
  /\ \E t \in DirectTasks \cup {None} :
       DirectCall("attach_task", FALSE, attach_task(ShellState, t))
  /\ UNCHANGED exercised

\* a caller outside the ShellRunner recording a gate verdict, as the
\* orchestrator does with shell._mark_phase(task["id"], "review_passed")
MarkPhase ==
  /\ CanCall
  /\ current_task # None
  /\ \E f \in {"review_passed", "efficiency_passed"} :
       /\ DirectCall("_mark_phase", FALSE, _mark_phase(ShellState, current_task, f))
       /\ exercised' = Exercise(current_task, f)

GitCheckoutBranch ==
  /\ CanCall
  /\ \E b \in {TaskBranch(t) : t \in DirectTasks}, listOk \in BOOLEAN :
     \E coOk \in IF listOk /\ CheckoutCanPass(ShellState, b) THEN BOOLEAN ELSE {FALSE} :
       DirectCall("git_checkout_branch", FALSE,
                  git_checkout_branch(ShellState, b, listOk, coOk))
  /\ exercised' = Exercise(current_task, "branch_isolated")

GitApply ==
  /\ CanCall
  /\ \E patch \in DirectTasks \cup {None}, reverse \in BOOLEAN :
     \E checkOk \in IF patch # None /\ ApplyCanPass(ShellState, patch, reverse)
                    THEN BOOLEAN ELSE {FALSE} :
     \E applyOk \in IF checkOk THEN BOOLEAN ELSE {FALSE} :
       DirectCall("git_apply", reverse,
                  git_apply(ShellState, patch, reverse, checkOk, applyOk))
  /\ UNCHANGED exercised

RunPytest ==
  /\ CanCall
  /\ \E pathOk \in BOOLEAN :
     \E passed \in IF pathOk THEN BOOLEAN ELSE {FALSE} :
       DirectCall("run_pytest", FALSE, run_pytest(ShellState, pathOk, passed))
  /\ UNCHANGED exercised

GitCommit ==
  /\ CanCall
  /\ \E addOk \in BOOLEAN :
     \E commitOk \in IF addOk /\ CommitCanPass(ShellState) THEN BOOLEAN ELSE {FALSE} :
     \E shaOk \in IF commitOk THEN BOOLEAN ELSE {FALSE} :
       DirectCall("git_commit", FALSE, git_commit(ShellState, addOk, commitOk, shaOk))
  /\ UNCHANGED exercised

GitResetHard ==
  /\ CanCall
  /\ \E resetOk \in BOOLEAN, cleanOk \in BOOLEAN :
       DirectCall("git_reset_hard", FALSE, git_reset_hard(ShellState, resetOk, cleanOk))
  /\ UNCHANGED exercised

(* ---------------------- run_task_cycle ------------------------------- *)
\* the end of one step of run_task_cycle that left the state r: the step
\* goes on to nextpc, returns r.res, or raised and went through the handler
Leave(r, tid, c, nextpc, resetOk, cleanOk) ==
  LET h == IF r.raised # None THEN Handler(r, tid, resetOk, cleanOk) ELSE r
      c1 == [c EXCEPT !.resets = @ + h.resets,
                      !.ledger_failed = @ \/ h.io_any]
      over == h.raised # None \/ r.raised # None \/ r.ctl = "return"
  IN /\ ShellUpdate(h)
     /\ status' = h.status
     /\ before_sha' = h.sha
     /\ files' = h.files
     /\ pc' = IF over THEN "idle" ELSE nextpc
     /\ task' = IF over THEN None ELSE tid
     /\ rollback_patch' = IF over THEN None ELSE h.rb
     /\ run_result' = IF h.raised # None THEN NoResult
                      ELSE IF r.raised # None THEN Result("False", None, "error")
                      ELSE IF r.ctl = "return" THEN r.res
                      ELSE run_result
     /\ cyc' = [c1 EXCEPT !.ended = IF h.raised # None THEN "raised"
                                    ELSE IF over THEN "returned" ELSE "running"]
     /\ UNCHANGED <<ops, storeVars, ledgerVars, family, mutex>>

\* DevOrchestrator(config) when the cycle is the first one, then
\* _ensure_backlog (outside the try), selection and attach_task.
\* gen: what TaskGenerator.generate_tasks does with its template ("raise":
\* TaskTemplateError, as for the fallback template, whose title is empty);
\* the templates give the generated tasks no patch material
StartCycle ==
  /\ pc = "idle"
  /\ ops = 0
  /\ cycles < MaxCycles
  /\ cycles' = cycles + 1
  /\ \E store \in IF cycles = 0 THEN Stores
                   ELSE {[status |-> status, material |-> material]},
        select_id \in Tasks \cup {None}, io \in IoSchedules :
     \E interactive \in IF select_id = None THEN BOOLEAN ELSE {FALSE},
        gen \in IF NeedsReplenish(store.status, placeholders)
                THEN {"tasks", "raise"} ELSE {"tasks"} :
     LET replenish == NeedsReplenish(store.status, placeholders)
         executable == Executable(store.status, store.material)
     IN
     \E pick \in IF interactive /\ executable # <<>> THEN Range(executable) ELSE {None} :
     LET s0 == [OrchState(io) EXCEPT !.rb = None, !.status = store.status]
         e == IF ~replenish THEN s0
              ELSE IF gen = "raise" THEN Raise(s0, "TaskTemplateError")
              ELSE _record(s0, ReplenishId, "backlog_replenished", "")
         select == IF executable = <<>> THEN "no_tasks"
                   ELSE IF select_id # None
                   THEN IF store.status[select_id] = "open" THEN "id" ELSE "not_found"
                   ELSE IF interactive THEN "interactive" ELSE "first"
         tid == IF e.raised # None THEN None
                ELSE IF select = "id" THEN select_id
                ELSE IF select = "interactive" THEN pick
                ELSE IF select = "first" THEN executable[1]
                ELSE None
         r == IF tid = None THEN Raise(e, "RuntimeError") ELSE attach_task(e, tid)
         c == [NoCycle EXCEPT !.tid = tid,
                              !.start = Content(s0),
                              !.hist0 = IF tid = None THEN 0 ELSE Len(history[tid]),
                              !.replenished = replenish /\ gen = "tasks",
                              !.select = IF e.raised # None THEN None ELSE select]
     IN /\ material' = store.material
        /\ placeholders' = IF replenish /\ gen = "tasks"
                           THEN placeholders + backlog_autoreplenish_count
                           ELSE placeholders
        /\ IF e.raised # None
           THEN \* raised before the try: no handler
                /\ ShellUpdate(e)
                /\ status' = e.status
                /\ before_sha' = e.sha
                /\ files' = e.files
                /\ cyc' = [c EXCEPT !.ended = "raised", !.ledger_failed = e.io_any]
                /\ run_result' = NoResult
                /\ UNCHANGED <<pc, task, rollback_patch, ops, storeVars, ledgerVars,
                               family, mutex>>
           ELSE Leave(r, tid, c, "branch", TRUE, TRUE)
  /\ last' = NoCall
  /\ built' = [tree |-> None, edits |-> <<>>, result |-> None]
  /\ UNCHANGED exercised

CycleIsolate ==
  /\ pc = "branch"
  /\ \E listOk \in BOOLEAN, io \in IoSchedules :
     \E coOk \in IF listOk /\ CheckoutCanPass(ShellState, TaskBranch(task))
                 THEN BOOLEAN ELSE {FALSE} :
       Leave(IsolateBranch(OrchState(io), task, listOk, coOk), task,
             [cyc EXCEPT !.select = None], "build", TRUE, TRUE)
  /\ exercised' = Exercise(task, "branch_isolated")
  /\ UNCHANGED <<built, material, placeholders, cycles, last>>

\* outcome "conflict": the task's ChangeSet carries a before_sha that the
\* repository file does not have (or the file is missing), and
\* TaskExecutor.build_patch wraps the RuntimeError of the builder
CycleBuild ==
  /\ pc = "build"
  /\ \E outcome \in IF task \in material
                     THEN {"ok", "empty", "invalid", "conflict", "error"}
                     ELSE {"error"},
        io \in IoSchedules :
     \E resetOk \in BOOLEAN, cleanOk \in BOOLEAN :
       /\ Leave(BuildPatch(OrchState(io), task, outcome), task,
                [cyc EXCEPT !.build = outcome,
                            !.at_build = <<work, gone, heads, branch, status>>],
                "review1", resetOk, cleanOk)
       /\ IF outcome = "conflict"
          THEN \E tree \in {"absent", "x"} :
                 LET edits == <<[mode |-> "modify", after |-> "y", before_sha |-> "sha-y"]>>
                     res == build_patch(tree, edits, TRUE, TRUE)
                 IN /\ res.raised = "RuntimeError"
                    /\ built' = [tree |-> tree, edits |-> edits, result |-> res]
          ELSE UNCHANGED built
  /\ UNCHANGED <<material, placeholders, cycles, last, exercised>>

CycleReview1 ==
  /\ pc = "review1"
  /\ \E pass \in BOOLEAN, resetOk \in BOOLEAN, cleanOk \in BOOLEAN, io \in IoSchedules :
       Leave(ReviewReasoning(OrchState(io), task, pass), task,
             [cyc EXCEPT !.review1 = IF pass THEN "pass" ELSE "fail"],
             "review2", resetOk, cleanOk)
  /\ exercised' = Exercise(task, "review_passed")
  /\ UNCHANGED <<built, material, placeholders, cycles, last>>

CycleReview2 ==
  /\ pc = "review2"
  /\ \E verdict \in {"pass", "fail", "raise"}, io \in IoSchedules :
     \E resetOk \in BOOLEAN, cleanOk \in BOOLEAN :
       /\ Leave(ReviewEfficiency(OrchState(io), task, verdict), task,
                [cyc EXCEPT !.review2 = verdict], "apply", resetOk, cleanOk)
       /\ exercised' = IF verdict = "raise" THEN exercised
                       ELSE Exercise(task, "efficiency_passed")
  /\ UNCHANGED <<built, material, placeholders, cycles, last>>

CycleApply ==
  /\ pc = "apply"
  /\ \E checkOk \in IF ApplyCanPass(ShellState, rollback_patch, FALSE)
                    THEN BOOLEAN ELSE {FALSE} :
     \E applyOk \in IF checkOk THEN BOOLEAN ELSE {FALSE} :
     \E resetOk \in BOOLEAN, cleanOk \in BOOLEAN, io \in IoSchedules :
       LET g == git_apply(OrchState(io), rollback_patch, FALSE, checkOk, applyOk) IN
       Leave(AfterApply(g, task), task,
             [cyc EXCEPT !.apply_called = TRUE, !.applied = (g.raised = None),
                         !.at_apply = Content(ShellState)],
             "test", resetOk, cleanOk)
  /\ UNCHANGED <<built, material, placeholders, cycles, last, exercised>>

CycleTest ==
  /\ pc = "test"
  /\ \E pathOk \in BOOLEAN :
     \E passed \in IF pathOk THEN BOOLEAN ELSE {FALSE} :
     \E resetOk \in BOOLEAN, cleanOk \in BOOLEAN, io \in IoSchedules :
       LET g == run_pytest(OrchState(io), pathOk, passed) IN
       Leave(AfterTests(g, task, resetOk, cleanOk), task,
             [cyc EXCEPT !.tests = IF g.raised # None THEN "raised" ELSE g.ret],
             "commit", resetOk, cleanOk)
  /\ UNCHANGED <<built, material, placeholders, cycles, last, exercised>>

CycleCommit ==
  /\ pc = "commit"
  /\ \E addOk \in BOOLEAN :
     \E commitOk \in IF addOk /\ CommitCanPass(ShellState) THEN BOOLEAN ELSE {FALSE} :
     \E shaOk \in IF commitOk THEN BOOLEAN ELSE {FALSE} :
     \E resetOk \in BOOLEAN, cleanOk \in BOOLEAN, io \in IoSchedules :
       LET g == git_commit(OrchState(io), addOk, commitOk, shaOk) IN
       Leave(AfterCommit(g, task, resetOk, cleanOk), task,
             [cyc EXCEPT !.commit_made = ("git commit" \in g.ran /\ commitOk),
                         !.commit_ok = (g.raised = None)],
             "idle", resetOk, cleanOk)
  /\ UNCHANGED <<built, material, placeholders, cycles, last, exercised>>

Next ==
  \/ AttachTask
  \/ MarkPhase
  \/ GitCheckoutBranch
  \/ GitApply
  \/ RunPytest
  \/ GitCommit
  \/ GitResetHard
  \/ StartCycle
  \/ CycleIsolate
  \/ CycleBuild
  \/ CycleReview1
  \/ CycleReview2
  \/ CycleApply
  \/ CycleTest
  \/ CycleCommit

Spec == Init /\ [][Next]_vars

(* ------------- the calls made on one BacklogManager ------------------ *)
\* BacklogManager has no lock: a thread may be anywhere in a call while
\* another one runs.  The steps of save are the points where the file
\* system is touched: open (create or truncate), json.dump into the buffer
\* of the handle, close (the buffer reaches the file), os.replace.
CanBegin(p) ==
  /\ callers[p].pc = "idle"
  /\ calls.adds + calls.writes + calls.reads + calls.rejected < MaxStoreCalls

Begin(p, op) ==
  callers' = [callers EXCEPT ![p] = [Idle EXCEPT !.pc = "save_open", !.op = op]]

\* add_item of a task without an id (uuid4 gives it a fresh one), up to its
\* call of save; the caller may have written anything into its status
AddItem ==
  \E p \in Callers, st \in Statuses \cup {"nonsense"} :
    /\ CanBegin(p)
    /\ items' = Append(items, _normalize_task(calls.adds + 1, st))
    /\ Begin(p, "add_item")
    /\ calls' = [calls EXCEPT !.adds = @ + 1]
    /\ UNCHANGED <<disk, listed, pipelineVars, ledgerVars>>

\* add_item of a task with a preset id (0: an id uuid4 never produces), up
\* to the end of its duplicate check: TaskStructureError when a stored task
\* has the id
AddItemPreset ==
  \E p \in Callers :
    /\ CanBegin(p)
    /\ IF _task_index(items, 0) # 0
       THEN /\ calls' = [calls EXCEPT !.rejected = @ + 1]
            /\ UNCHANGED callers
       ELSE /\ calls' = [calls EXCEPT !.writes = @ + 1]
            /\ callers' = [callers EXCEPT ![p] =
                             [Idle EXCEPT !.pc = "add_append", !.op = "add_item"]]
    /\ UNCHANGED <<items, disk, listed, pipelineVars, ledgerVars>>

\* add_item: self._items.append(task), up to its call of save
AddItemAppend ==
  \E p \in Callers :
    /\ callers[p].pc = "add_append"
    /\ items' = Append(items, _normalize_task(0, "open"))
    /\ callers' = [callers EXCEPT ![p].pc = "save_open"]
    /\ UNCHANGED <<disk, listed, calls, pipelineVars, ledgerVars>>

\* update_item(id, {"status": st}) of a stored task, up to its call of save
UpdateItem ==
  \E p \in Callers, i \in 1..Len(items), st \in {"done", "blocked"} :
    /\ CanBegin(p)
    /\ items' = [items EXCEPT ![_task_index(items, items[i].id)].status = st]
    /\ Begin(p, "update_item")
    /\ calls' = [calls EXCEPT !.writes = @ + 1]
    /\ UNCHANGED <<disk, listed, pipelineVars, ledgerVars>>

\* remove_item(id) of a stored task, up to its call of save
RemoveItem ==
  \E p \in Callers, i \in 1..Len(items) :
    /\ CanBegin(p)
    /\ items' = [items EXCEPT ![_task_index(items, items[i].id)].status = "archived"]
    /\ Begin(p, "remove_item")
    /\ calls' = [calls EXCEPT !.writes = @ + 1]
    /\ UNCHANGED <<disk, listed, pipelineVars, ledgerVars>>

\* archive_completed: the loop over the tasks starts
ArchiveBegin ==
  \E p \in Callers :
    /\ CanBegin(p)
    /\ callers' = [callers EXCEPT ![p] =
                     [Idle EXCEPT !.pc = "archive", !.op = "archive_completed", !.k = 1]]
    /\ calls' = [calls EXCEPT !.writes = @ + 1]
    /\ UNCHANGED <<items, disk, listed, pipelineVars, ledgerVars>>

\* archive_completed: one turn of the loop, or its end (save if n > 0)
ArchiveStep ==
  \E p \in Callers :
    LET c == callers[p] IN
    /\ c.pc = "archive"
    /\ IF c.k > Len(items)
       THEN /\ callers' = [callers EXCEPT ![p] =
                             IF c.n > 0 THEN [c EXCEPT !.pc = "save_open"] ELSE Idle]
            /\ UNCHANGED items
       ELSE /\ items' = IF items[c.k].status = "done"
                        THEN [items EXCEPT ![c.k].status = "archived"] ELSE items
            /\ callers' = [callers EXCEPT ![p].k = @ + 1,
                                          ![p].n = IF items[c.k].status = "done"
                                                   THEN @ + 1 ELSE @]
    /\ UNCHANGED <<disk, listed, calls, pipelineVars, ledgerVars>>

\* list_items(q): the list returned is new, its elements are the dicts of
\* _items themselves
ListItems ==
  \E p \in Callers, q \in {"open", "all"} :
    /\ CanBegin(p)
    /\ listed' = [query |-> q, result |-> list_items(items, q),
                  blocked |-> {items[i].id : i \in {j \in 1..Len(items) :
                                                     items[j].status = "blocked"}},
                  refs |-> {i \in 1..Len(items) : q = "all" \/ items[i].status = q},
                  edited |-> FALSE]
    /\ calls' = [calls EXCEPT !.reads = @ + 1]
    /\ UNCHANGED <<items, disk, callers, pipelineVars, ledgerVars>>

\* get_item(id) of a stored task: the caller gets the stored dict
GetItem ==
  \E p \in Callers, i \in 1..Len(items) :
    LET ix == _task_index(items, items[i].id) IN
    /\ CanBegin(p)
    /\ listed' = [NoList EXCEPT !.query = "get", !.result = <<items[ix]>>, !.refs = {ix}]
    /\ calls' = [calls EXCEPT !.reads = @ + 1]
    /\ UNCHANGED <<items, disk, callers, pipelineVars, ledgerVars>>

\* the caller of list_items or get_item sets the status of a task it was
\* handed (task["status"] = st): a write into the dict it holds
EditReturned ==
  \E i \in listed.refs, st \in Statuses :
    /\ ~listed.edited
    /\ listed' = [listed EXCEPT !.edited = TRUE]
    /\ items' = [items EXCEPT ![i].status = st]
    /\ UNCHANGED <<disk, callers, calls, pipelineVars, ledgerVars>>

\* save: open(tmp_path, "w")
SaveOpen ==
  \E p \in Callers :
    /\ callers[p].pc = "save_open"
    /\ disk' = OpenTmp(disk)
    /\ callers' = [callers EXCEPT ![p].pc = "save_dump", ![p].fh = OpenTmp(disk).tmp]
    /\ UNCHANGED <<items, listed, calls, pipelineVars, ledgerVars>>

\* save: json.dump(self._items, f)
SaveDump ==
  \E p \in Callers :
    /\ callers[p].pc = "save_dump"
    /\ callers' = [callers EXCEPT ![p].pc = "save_close", ![p].buf = items]
    /\ UNCHANGED <<items, disk, listed, calls, pipelineVars, ledgerVars>>

\* save: the end of the `with` block closes the handle
SaveClose ==
  \E p \in Callers :
    LET c == callers[p] IN
    /\ c.pc = "save_close"
    /\ disk' = [disk EXCEPT !.inodes[c.fh] = Overlay(@, c.buf)]
    /\ callers' = [callers EXCEPT ![p].pc = "save_replace"]
    /\ UNCHANGED <<items, listed, calls, pipelineVars, ledgerVars>>

\* save: os.replace(tmp_path, self.path); FileNotFoundError when another
\* thread has renamed the .tmp file away
SaveReplace ==
  \E p \in Callers :
    /\ callers[p].pc = "save_replace"
    /\ disk' = IF disk.tmp = NoFile THEN disk ELSE Replace(disk)
    /\ calls' = [calls EXCEPT !.raised = @ \/ disk.tmp = NoFile]
    /\ callers' = [callers EXCEPT ![p] = Idle]
    /\ UNCHANGED <<items, listed, pipelineVars, ledgerVars>>

StoreNext ==
  \/ AddItem
  \/ AddItemPreset
  \/ AddItemAppend
  \/ GetItem
  \/ EditReturned
  \/ UpdateItem
  \/ RemoveItem
  \/ ArchiveBegin
  \/ ArchiveStep
  \/ ListItems
  \/ SaveOpen
  \/ SaveDump
  \/ SaveClose
  \/ SaveReplace

\* the store and the ledger are exercised on their own, next to a pipeline
\* that stays in its initial state with a clean working tree
CleanInit == Init /\ work = {}

StoreSpec == CleanInit /\ [][StoreNext]_vars

(* --------------- the calls made on one TaskRecord -------------------- *)
\* the number of save calls made so far
RECURSIVE SavesUpTo(_)
SavesUpTo(k) == IF k = 0 THEN 0 ELSE saves[k] + SavesUpTo(k - 1)

CanCallLedger(p) ==
  /\ savers[p].pc = "idle"
  /\ SavesUpTo(MaxSavers) + reads < MaxLedgerCalls

Enter(p, op, state) ==
  savers' = [savers EXCEPT ![p] = [pc |-> "lock", op |-> op, state |-> state, got |-> @.got]]

\* save(task, state, extra) is called
CallSave ==
  \E p \in Savers, state \in Labels :
    /\ CanCallLedger(p)
    /\ Enter(p, "save", state)
    /\ saves' = [saves EXCEPT ![p] = @ + 1]
    /\ UNCHANGED <<records, idmap, lock, record_file, heap, written, reads,
                   pipelineVars, storeVars>>

\* append_iteration(task_id, iteration) is called
CallAppendIteration ==
  \E p \in Savers :
    /\ CanCallLedger(p)
    /\ Enter(p, "append_iteration", None)
    /\ reads' = reads + 1
    /\ UNCHANGED <<records, idmap, lock, record_file, heap, written, saves,
                   pipelineVars, storeVars>>

\* load() is called
CallLoad ==
  \E p \in Savers :
    /\ CanCallLedger(p)
    /\ Enter(p, "load", None)
    /\ reads' = reads + 1
    /\ UNCHANGED <<records, idmap, lock, record_file, heap, written, saves,
                   pipelineVars, storeVars>>

\* `with self._lock:` at the top of save, append_iteration and load
LockAcquire ==
  \E p \in Savers :
    /\ savers[p].pc = "lock"
    /\ CanAcquire(lock, p)
    /\ lock' = Acquire(lock, p)
    /\ savers' = [savers EXCEPT ![p].pc = "body"]
    /\ UNCHANGED <<records, idmap, record_file, heap, written, saves, reads,
                   pipelineVars, storeVars>>

\* save, from _find_or_create_record to _sync_idmap
SaveBody ==
  \E p \in Savers :
    LET f == _find_or_create_record(records, idmap, p)
        i == f.idmap[p]
        t == deepcopy(heap, TaskObj(p))
        e == deepcopy(t.heap, ExtraObj(p))
        snapshot == [state |-> savers[p].state, task |-> t.ref, extra |-> e.ref]
        recs == [f.records EXCEPT ![i].history = Append(@, snapshot)]
    IN /\ savers[p].pc = "body"
       /\ savers[p].op = "save"
       /\ records' = recs
       /\ idmap' = _sync_idmap(recs)
       /\ heap' = e.heap
       /\ written' = Append(written,
                            [task_id |-> p, pos |-> Len(recs[i].history),
                             state |-> savers[p].state,
                             task |-> heap[TaskObj(p)], extra |-> heap[ExtraObj(p)]])
       /\ savers' = [savers EXCEPT ![p].pc = "persist_lock"]
       /\ UNCHANGED <<lock, record_file, saves, reads, pipelineVars, storeVars>>

\* append_iteration, from _find_record to the append: TaskRecordError when
\* the task has no record
AppendIterationBody ==
  \E p \in Savers :
    /\ savers[p].pc = "body"
    /\ savers[p].op = "append_iteration"
    /\ IF idmap[p] = 0
       THEN /\ savers' = [savers EXCEPT ![p].pc = "unlock"]
            /\ UNCHANGED records
       ELSE /\ records' = [records EXCEPT ![idmap[p]].iterations = 1]
            /\ savers' = [savers EXCEPT ![p].pc = "persist_lock"]
    /\ UNCHANGED <<idmap, lock, record_file, heap, written, saves, reads,
                   pipelineVars, storeVars>>

\* load: copy.deepcopy(self._records).  Of the copy the caller keeps the
\* part it is going to touch: the task or the payload of one snapshot
LoadBody ==
  \E p \in Savers :
    /\ savers[p].pc = "body"
    /\ savers[p].op = "load"
    /\ \/ /\ records = <<>>
          /\ savers' = [savers EXCEPT ![p].pc = "unlock"]
          /\ UNCHANGED heap
       \/ \E i \in 1..Len(records) :
          \E j \in 1..Len(records[i].history), part \in {"task", "extra"} :
            LET o == IF part = "task" THEN records[i].history[j].task
                     ELSE records[i].history[j].extra
                c == deepcopy(heap, o)
            IN /\ heap' = c.heap
               /\ savers' = [savers EXCEPT ![p].pc = "unlock", ![p].got = c.ref]
    /\ UNCHANGED <<records, idmap, lock, record_file, written, saves, reads,
                   pipelineVars, storeVars>>

\* _persist: its own `with self._lock:`, entered by the thread that holds
\* the lock already
PersistAcquire ==
  \E p \in Savers :
    /\ savers[p].pc = "persist_lock"
    /\ CanAcquire(lock, p)
    /\ lock' = Acquire(lock, p)
    /\ savers' = [savers EXCEPT ![p].pc = "persist"]
    /\ UNCHANGED <<records, idmap, record_file, heap, written, saves, reads,
                   pipelineVars, storeVars>>

\* _persist: json.dump to the .tmp file, os.replace, end of its `with`
PersistWrite ==
  \E p \in Savers :
    /\ savers[p].pc = "persist"
    /\ record_file' = Dumped(records, heap)
    /\ lock' = Release(lock)
    /\ savers' = [savers EXCEPT ![p].pc = "unlock"]
    /\ UNCHANGED <<records, idmap, heap, written, saves, reads,
                   pipelineVars, storeVars>>

\* the end of the `with self._lock:` of save, append_iteration and load
LockRelease ==
  \E p \in Savers :
    /\ savers[p].pc = "unlock"
    /\ lock' = Release(lock)
    /\ savers' = [savers EXCEPT ![p].pc = "idle", ![p].op = None, ![p].state = None]
    /\ UNCHANGED <<records, idmap, record_file, heap, written, saves, reads,
                   pipelineVars, storeVars>>

\* a caller changes the task dict or the payload it passed to save
MutateOwn ==
  \E p \in Savers : \E o \in {TaskObj(p), ExtraObj(p)} :
    /\ saves[p] > 0
    /\ heap[o] = 0
    /\ heap' = [heap EXCEPT ![o] = 1]
    /\ UNCHANGED <<records, idmap, lock, record_file, savers, written, saves, reads,
                   pipelineVars, storeVars>>

\* a caller changes what load() returned to it
MutateLoaded ==
  \E p \in Savers :
    /\ savers[p].got # 0
    /\ heap[savers[p].got] # 2
    /\ heap' = [heap EXCEPT ![savers[p].got] = 2]
    /\ UNCHANGED <<records, idmap, lock, record_file, savers, written, saves, reads,
                   pipelineVars, storeVars>>

LedgerNext ==
  \/ CallSave
  \/ CallAppendIteration
  \/ CallLoad
  \/ LockAcquire
  \/ SaveBody
  \/ AppendIterationBody
  \/ LoadBody
  \/ PersistAcquire
  \/ PersistWrite
  \/ LockRelease
  \/ MutateOwn
  \/ MutateLoaded

LedgerSpec == CleanInit /\ [][LedgerNext]_vars

(* ---------------- a call of patch_builder.build_patch ---------------- *)
\* the one call of build_patch a behaviour makes, on a repository and a
\* ChangeSet of one to MaxEdits edits
CallBuildPatch ==
  /\ built.tree = None
  /\ \E tree \in {"absent", "x", "y"}, n \in 1..MaxEdits :
     \E edits \in [1..n -> [mode : {"add", "modify", "delete"}, after : {None, "x", "y"},
                            before_sha : {None, "sha-x", "sha-y"}]],
        diffOk \in BOOLEAN, applies \in BOOLEAN :
    /\ built' = [tree |-> tree, edits |-> edits,
                 result |-> build_patch(tree, edits, diffOk, applies)]
    /\ UNCHANGED <<phase_flags, current_task, history, status, material, placeholders,
                   branch, heads, work, gone, exercised, last, pc, task, rollback_patch,
                   run_result, cyc, ops, cycles, family, mutex, before_sha, files, storeVars,
                   ledgerVars>>

BuildSpec == CleanInit /\ [][CallBuildPatch]_vars

(* ------------- FailureResponder.handle_failure ----------------------- *)
\* FailureResponder.max_depth (the default of __init__)
max_depth == 2

\* handle_failure(failed_task=..., stage=..., error=...) for an open task of
\* the store, called with keywords as the self-test of the module does; no
\* caller passes depth, so it has its default 0.  n is the length of the
\* list the agent returns (-1: the agent raises or returns no list of dicts)
HandleFailure ==
  \E i \in 1..Len(family), n \in -1..MaxSubtasks :
    LET depth == 0
        child == [parent |-> i, status |-> "open"]
        added == [k \in 1..(IF n < 0 THEN 0 ELSE n) |-> child]
    IN /\ family[i].status = "open"
       /\ Len(family) + Len(added) <= MaxFamily
       /\ family' = IF depth >= max_depth \/ n < 0 THEN family
                    ELSE [family EXCEPT ![i].status = "blocked"] \o added
       /\ UNCHANGED <<phase_flags, current_task, history, status, material, placeholders,
                      branch, heads, work, gone, exercised, last, pc, task, rollback_patch,
                      run_result, cyc, ops, cycles, built, mutex, before_sha, files, storeVars,
                      ledgerVars>>

ResponderSpec == CleanInit /\ [][HandleFailure]_vars

(* ------------------------- FileMutex --------------------------------- *)
\* `with FileMutex(path):` in process p.  mutex.holder is the process that
\* holds the lock on <path>.lock (0: nobody), mutex.at[p] is where p stands:
\* "out"side the with statement, "waiting" inside flock(LOCK_EX), or "in" the
\* guarded section.  plat: sys.platform (the same for every process);
\* openOk: open(self.path) and the import did not raise
__enter__(p) ==
  /\ mutex.at[p] = "out"
  /\ \E plat \in IF mutex.platform = None THEN {"posix", "win", "other"}
                  ELSE {mutex.platform},
        openOk \in BOOLEAN :
       LET free == mutex.holder = 0
           got == CASE plat = "posix" -> openOk /\ free
                    [] plat = "win" -> openOk /\ free
                    [] OTHER -> FALSE
           blocks == plat = "posix" /\ openOk /\ ~free
       IN mutex' = [mutex EXCEPT
                      !.platform = plat,
                      !.holder = IF got THEN p ELSE @,
                      !.at[p] = IF blocks THEN "waiting" ELSE "in",
                      !.acquired[p] = got \/ plat = "other"]
  /\ UNCHANGED <<phase_flags, current_task, history, status, material, placeholders,
                 branch, heads, work, gone, exercised, last, pc, task, rollback_patch,
                 run_result, cyc, ops, cycles, built, family, before_sha, files, storeVars,
                 ledgerVars>>

\* the blocking fcntl.flock(self._file, LOCK_EX) of p returns once the lock
\* is free
flock(p) ==
  /\ mutex.at[p] = "waiting"
  /\ mutex.holder = 0
  /\ mutex' = [mutex EXCEPT !.holder = p, !.at[p] = "in", !.acquired[p] = TRUE]
  /\ UNCHANGED <<phase_flags, current_task, history, status, material, placeholders,
                 branch, heads, work, gone, exercised, last, pc, task, rollback_patch,
                 run_result, cyc, ops, cycles, built, family, before_sha, files, storeVars,
                 ledgerVars>>

\* the guarded section of p ends, normally or with an exception: the with
\* statement calls __exit__ on both paths
__exit__(p) ==
  /\ mutex.at[p] = "in"
  /\ mutex' = [mutex EXCEPT !.holder = IF @ = p THEN 0 ELSE @,
                            !.at[p] = "out", !.acquired[p] = FALSE]
  /\ UNCHANGED <<phase_flags, current_task, history, status, material, placeholders,
                 branch, heads, work, gone, exercised, last, pc, task, rollback_patch,
                 run_result, cyc, ops, cycles, built, family, before_sha, files, storeVars,
                 ledgerVars>>

\* processes that share one lock file.  The operating system hands a free
\* lock to a process blocked in flock; how long a holder stays in its
\* guarded section is up to the holder, so __exit__ has no fairness
LockSpec ==
  /\ CleanInit
  /\ [][\E p \in 1..MaxProcs : __enter__(p) \/ flock(p) \/ __exit__(p)]_vars
  /\ \A p \in 1..MaxProcs : WF_vars(flock(p))

(* ------------------------- properties -------------------------------- *)
\* the unconditional prerequisites of commit that a flag set lacks
AbsentBase(flags) == {f \in Range(BASE) : f \notin flags}

\* the last call the caller made was git_commit, with a task attached
CommitCalled == last.op = "git_commit" /\ last.tid # None

\* C1: git_commit called with a task attached whose phase flags lack
\* patch_applied or tests_passed raises ShellCommandError and creates no
\* commit, whatever other flags the task has
C1_CommitRefusedWithoutBase ==
  (CommitCalled /\ AbsentBase(last.flags_before) # {})
    => /\ last.raised = "ShellCommandError"
       /\ ~last.committed
       /\ "git commit" \notin last.ran

\* a commit refused for tests_passed although patch_applied and a review
\* flag are there
C1_Witness ==
  /\ CommitCalled
  /\ last.flags_before = {"patch_applied", "review_passed"}
  /\ last.raised = "ShellCommandError"

\* C9: a commit refused for missing prerequisites names, in its error and in
\* the failed_git_commit snapshot appended before it raises, exactly the
\* unconditional prerequisites that are absent and no flag that is present,
\* and runs no git command
C9_RefusalNamesAbsentFlags ==
  (CommitCalled /\ AbsentBase(last.flags_before) # {})
    => /\ last.raised = "ShellCommandError"
       /\ last.snap.state = "failed_git_commit"
       /\ Range(last.snap.missing) = AbsentBase(last.flags_before)
       /\ Range(last.snap.missing) \cap last.flags_before = {}
       /\ last.ran = {}

\* commit on a task with only patch_applied: the refusal names tests_passed
C9_Witness ==
  /\ CommitCalled
  /\ last.flags_before = {"patch_applied"}
  /\ last.snap.state = "failed_git_commit"
  /\ last.snap.missing = <<"tests_passed">>

\* the last call was git_apply and its dry run `git apply --check` failed
DryRunFailed == last.op = "git_apply" /\ "git apply --check" \in last.failed

\* C10: when the dry run of git_apply fails, the call raises, appends a
\* failed-apply snapshot carrying the captured output (when a task is
\* attached), leaves the working tree as it was and does not add
\* patch_applied; and git_apply changes the tree only after a dry run that
\* succeeded
C10_DryRunFailureLeavesTree ==
  /\ DryRunFailed =>
       /\ last.raised = "ShellCommandError"
       /\ ~last.tree_changed
       /\ "git apply" \notin last.ran
       /\ "patch_applied" \in last.flags_after => "patch_applied" \in last.flags_before
       /\ last.tid # None =>
            /\ last.snap.state = "failed_" \o ApplyStage(last.reverse)
            /\ last.snap.output
  /\ (last.op = "git_apply" /\ last.tree_changed) =>
       "git apply --check" \in last.ran \ last.failed

\* a failed dry run of a forward apply, with a task attached
C10_Witness ==
  /\ DryRunFailed
  /\ last.tid # None
  /\ ~last.reverse
  /\ last.snap.state = "failed_git_apply"
  /\ "patch_applied" \notin last.flags_after

\* the operations of the execution engine, and the failure labels they record
EngineOps ==
  {"git_checkout_branch", "git_apply", "run_pytest", "git_commit", "git_reset_hard"}

FailedStates ==
  {"failed_" \o st : st \in EngineOps \cup {"git_apply_reverse", "pytest"}}

\* C4: whenever an operation of the execution engine called with a task
\* attached raises, it has appended a failed_<stage> snapshot to the ledger
\* of that task before the caller sees the exception
C4_RaisedFailureIsRecorded ==
  (last.op \in EngineOps /\ last.tid # None /\ last.raised # None)
    => last.snap.state \in FailedStates

\* C5: a commit for a task is refused when an optional gate (review,
\* efficiency, branch isolation) was run for the task and the gate's flag is
\* not among the task's phase flags
C5_ExercisedGateRequired ==
  (CommitCalled /\ exercised[last.tid] \ last.flags_before # {})
    => (last.raised = "ShellCommandError" /\ ~last.committed)

(* ----------------- properties of run_task_cycle ---------------------- *)
\* the snapshots the current (or last) cycle appended for its task
Written ==
  IF cyc.tid = None THEN <<>>
  ELSE SubSeq(history[cyc.tid], cyc.hist0 + 1, Len(history[cyc.tid]))

\* the state labels `labels` occur in h from position `from` on, in that order
RECURSIVE InOrder(_, _, _)
InOrder(h, from, labels) ==
  IF labels = <<>> THEN TRUE
  ELSE \E i \in from..Len(h) :
         h[i].state = Head(labels) /\ InOrder(h, i + 1, Tail(labels))

\* the status shown by the snapshots of h labelled `label`
StatusAt(h, label) == {h[i].status : i \in {j \in 1..Len(h) : h[j].state = label}}

CycleOver == pc = "idle" /\ cyc.ended \in {"returned", "raised"}

\* run_task_cycle returned a failure result
FailedReturn == CycleOver /\ cyc.ended = "returned" /\ run_result.success = "False"

\* C2: after a cycle that returned a failure result the working tree holds
\* none of the selected task's patch: its content is what it was when the
\* cycle started
C2_FailedCycleRestoresTree ==
  FailedReturn =>
    /\ Content(ShellState) = cyc.start
    /\ cyc.tid \notin Content(ShellState)

\* a cycle failed after apply succeeded and before commit succeeded
FailedAfterApply == CycleOver /\ cyc.applied /\ ~cyc.commit_ok

\* C3: a cycle that fails after apply succeeded and before commit succeeded
\* has attempted a rollback and has written the outcome of the rollback to
\* the task's ledger as a rollback_succeeded or rollback_failed snapshot
C3_RollbackAttemptedAndRecorded ==
  FailedAfterApply =>
    /\ cyc.resets > 0
    /\ \E i \in 1..Len(Written) :
         Written[i].state \in {"rollback_succeeded", "rollback_failed"}

\* a review gate of the cycle returned fail
GateFailed == cyc.review1 = "fail" \/ cyc.review2 = "fail"

\* C6: apply is invoked only after both review gates passed; a gate that
\* fails ends the cycle with a failure result and its own failed-review
\* snapshot, and the working tree was not touched in that cycle
C6_GatesPrecedeApply ==
  /\ cyc.apply_called => (cyc.review1 = "pass" /\ cyc.review2 = "pass")
  /\ (GateFailed /\ cyc.ended # "running") =>
       /\ FailedReturn
       /\ \E i \in 1..Len(Written) :
            Written[i].state =
              IF cyc.review1 = "fail" THEN "failed_patch_review_reasoning"
              ELSE "failed_patch_review_efficiency"
       /\ cyc.resets = 0
       /\ Content(ShellState) = cyc.start

\* the cycle's patch applied, its tests passed and its commit succeeded
HappyPath ==
  CycleOver /\ cyc.applied /\ cyc.tests = "success" /\ cyc.commit_ok

C8_FailedTestsRollBack ==
  (cyc.tests = "failure" /\ cyc.ended # "running") =>
    /\ cyc.tid \notin Content(ShellState)
    /\ work = {} /\ gone = {}
    /\ InOrder(Written, 1, <<"failed_test", "rollback_succeeded">>)
    /\ FailedReturn
    /\ run_result.stage = "test"

\* the last call was a reverse apply that returned
ReverseApplied == last.op = "git_apply" /\ last.reverse /\ last.raised = None

\* C11: a successful reverse apply never adds patch_applied to the phase
\* flags of the attached task, so a task whose flags lacked patch_applied
\* still lacks it afterwards and its commit is still refused
C11_ReverseApplyAddsNoFlag ==
  (ReverseApplied /\ last.tid # None)
    => /\ "patch_applied" \in last.flags_after => "patch_applied" \in last.flags_before
       /\ "patch_applied" \notin last.flags_before
            => "patch_applied" \in Range(CommitMissing(last.flags_after))

\* the last call was run_pytest and pytest exited with a failure
TestsFailed == last.op = "run_pytest" /\ "pytest" \in last.failed

\* C12: a test run that fails does not raise: run_pytest returns the failure
\* result, has appended a failed_pytest snapshot with the captured output
\* (when a task is attached) and has not added tests_passed; tests_passed is
\* added only by a run that returns success
C12_FailingTestsReturnFailure ==
  /\ TestsFailed =>
       /\ last.raised = None
       /\ last.ret = "failure"
       /\ "tests_passed" \in last.flags_after => "tests_passed" \in last.flags_before
       /\ last.tid # None =>
            /\ last.snap.state = "failed_pytest"
            /\ last.snap.output
  /\ (last.op = "run_pytest" /\ "tests_passed" \in last.flags_after \ last.flags_before)
       => (last.ret = "success" /\ "pytest" \in last.ran \ last.failed)

\* red tests on an attached task that had applied its patch
C12_Witness ==
  /\ TestsFailed
  /\ last.tid # None
  /\ last.flags_before = {"patch_applied"}
  /\ last.flags_after = {"patch_applied"}
  /\ last.ret = "failure"
  /\ last.snap.state = "failed_pytest"

\* the last call was git_reset_hard and its reset or its clean step failed
ResetFailed == last.op = "git_reset_hard" /\ last.failed # {}

\* C13: git_reset_hard raises whenever its reset or its clean step fails, and
\* a cycle records rollback_succeeded only for a rollback whose reset and
\* clean did their work: a tree the rollback left dirty is never recorded
\* as rolled back
C13_ResetFailureRaises ==
  /\ ResetFailed => last.raised = "ShellCommandError"
  /\ (CycleOver /\ \E i \in 1..Len(Written) : Written[i].state = "rollback_succeeded")
       => Content(ShellState) \subseteq cyc.start

\* the failure labels the orchestrator writes to the ledger
OrchFailedStates ==
  {"failed_branch_isolation", "failed_build_patch", "invalid_change_set",
   "failed_patch_review_reasoning", "failed_patch_review_efficiency",
   "failed_patch_apply", "failed_test", "failed_commit", "rollback_failed"}

\* the cycle went through the `except Exception` branch of run_task_cycle
\* with a task selected
CaughtUnexpected ==
  /\ CycleOver
  /\ cyc.ended = "returned"
  /\ cyc.tid # None
  /\ run_result = Result("False", None, "error")

\* C14: no exception escapes run_task_cycle; a cycle in which a stage raised
\* returns a failure result after attempting a rollback if the patch had
\* been applied and after writing a failure snapshot for the selected task
C14_NoExceptionEscapes ==
  /\ CycleOver => cyc.ended = "returned"
  /\ CaughtUnexpected =>
       /\ cyc.applied => cyc.resets > 0
       /\ \E i \in 1..Len(Written) : Written[i].state \in OrchFailedStates

\* the last call was git_commit and it returned
CommitReturned == last.op = "git_commit" /\ last.raised = None

\* C15: every return of git_commit, with or without a task attached, has
\* staged and committed the changes and returns the revision identifier;
\* with a task attached the committed flag is set for it
C15_CommitReturnsRevision ==
  CommitReturned =>
    /\ last.ret = "sha"
    /\ {"git add", "git commit", "git rev-parse"} \subseteq last.ran \ last.failed
    /\ last.tid # None => "committed" \in last.flags_after

\* every call has returned or raised, and the only mutators called were adds
AddsOnly ==
  /\ \A p \in Callers : callers[p].pc = "idle"
  /\ calls.writes = 0
  /\ calls.adds > 0

\* C16: after N concurrent add_item calls of tasks without ids and nothing
\* else, every call has returned, the store holds N tasks with distinct ids
\* and the backlog file parses to as many tasks
C16_ConcurrentAddsAllStored ==
  AddsOnly =>
    /\ ~calls.raised
    /\ Len(items) = calls.adds
    /\ \A i, j \in 1..Len(items) : items[i].id = items[j].id => i = j
    /\ OnDisk.exists /\ OnDisk.ok
    /\ Len(OnDisk.val) = Len(items)

\* C17: the calls of the store exclude one another (they run under one
\* lock), and the backlog file, once written, always parses to a whole
\* task list
C17_ReadersSeeWholeCollections ==
  /\ Cardinality({p \in Callers : callers[p].pc # "idle"}) <= 1
  /\ OnDisk.exists => OnDisk.ok

\* C20: a blocked task is never in the result of list_items("open") and is
\* always in the result of list_items("all")
C20_BlockedNeverListedOpen ==
  /\ \A i \in 1..Len(items) :
       items[i].status = "blocked" =>
         /\ items[i] \notin Range(list_items(items, "open"))
         /\ items[i] \in Range(list_items(items, "all"))
  /\ listed.query = "open" =>
       /\ {listed.result[i].id : i \in 1..Len(listed.result)} \cap listed.blocked = {}
       /\ \A i \in 1..Len(listed.result) : listed.result[i].status # "blocked"
  /\ listed.query = "all" =>
       listed.blocked \subseteq {listed.result[i].id : i \in 1..Len(listed.result)}

\* list_items("open") was called while the store held a blocked task
C20_Witness ==
  /\ listed.query = "open"
  /\ listed.blocked # {}
  /\ \E i \in 1..Len(items) : items[i].status = "blocked"

\* thread p is inside a call and can take its next step: it does not wait
\* for the lock, or the lock lets it in
CanStep(p) ==
  /\ savers[p].pc # "idle"
  /\ savers[p].pc \in {"lock", "persist_lock"} => CanAcquire(lock, p)

\* C18: under any interleaving of save calls of several threads, each for
\* its own task id, the ledger never holds two records with one task_id,
\* holds one record with every saved snapshot for each saved id once the
\* calls have returned, and some thread inside a call can always go on
\* (save's nested _persist does not block on the lock save holds)
C18_ConcurrentSavesOneRecordEach ==
  /\ \A i, j \in 1..Len(records) : records[i].task_id = records[j].task_id => i = j
  /\ (\A p \in Savers : savers[p].pc = "idle") =>
       \A tid \in Savers :
         saves[tid] > 0 =>
           /\ idmap[tid] # 0
           /\ records[idmap[tid]].task_id = tid
           /\ Len(records[idmap[tid]].history) = saves[tid]
  /\ (\E p \in Savers : savers[p].pc # "idle") => \E p \in Savers : CanStep(p)

\* a save is in _persist, holding the lock twice, while the save of another
\* thread waits for the lock
C18_Witness ==
  \E p, q \in Savers :
    /\ p # q
    /\ savers[p].op = "save" /\ savers[p].pc = "persist"
    /\ lock = [owner |-> p, count |-> 2]
    /\ savers[q].op = "save" /\ savers[q].pc = "lock"

\* C19: every snapshot save has appended is still in the history of its
\* task at the position it was appended at, with the state label, the task
\* copy and the payload it had then, whatever the callers did later to the
\* dicts they passed or to what load returned
C19_SnapshotsNeverChange ==
  \A k \in 1..Len(written) :
    LET w == written[k] IN
    /\ idmap[w.task_id] # 0
    /\ LET h == records[idmap[w.task_id]].history IN
       /\ Len(h) >= w.pos
       /\ h[w.pos].state = w.state
       /\ heap[h[w.pos].task] = w.task
       /\ heap[h[w.pos].extra] = w.extra

\* a snapshot was saved, its caller has since changed the task dict it
\* passed, and a caller has changed what load returned
C19_Witness ==
  /\ Len(written) >= 1
  /\ heap[TaskObj(written[1].task_id)] # written[1].task
  /\ \E p \in Savers : savers[p].got # 0 /\ heap[savers[p].got] = 2

\* C21: add_item of a task whose status is none of open, in_progress, done,
\* archived, blocked raises before it touches the collection or the file:
\* such a status, which only the caller of add_item can have written, is
\* never found on a task of the collection or of the backlog file
C21_InvalidStatusRejected ==
  /\ \A i \in 1..Len(items) : items[i].status \in VALID_STATUSES
  /\ \A i \in 1..Len(OnDisk.val) : OnDisk.val[i].status \in VALID_STATUSES

\* C22: every step of add_item, update_item, remove_item and
\* archive_completed leaves a store in which no two tasks share an id and
\* every task has one of the enumerated statuses, and an add_item that is
\* rejected for its id changes neither the collection nor the file
C22_UniqueIdsValidStatuses ==
  [][/\ \A i, j \in 1..Len(items') : items'[i].id = items'[j].id => i = j
     /\ \A i \in 1..Len(items') : items'[i].status \in VALID_STATUSES
     /\ calls'.rejected # calls.rejected => items' = items /\ disk' = disk]_vars

\* C23: a caller that writes into a task list_items or get_item returned
\* changes neither the collection of the store nor its file
C23_ReadsReturnCopies ==
  [][(listed'.edited /\ ~listed.edited) => items' = items /\ disk' = disk]_vars

\* C24: a ledger write that fails during a cycle neither aborts the cycle
\* nor changes what it reports: the cycle does not end by raising, and a
\* cycle whose commit went through still reports success
C24_LedgerFailureNeverAborts ==
  cyc.ledger_failed =>
    /\ cyc.ended # "raised"
    /\ cyc.ended = "returned" /\ cyc.commit_ok => run_result.success = "True"

\* the statement of C25 as the claim has it: a cycle adds the generated
\* tasks exactly when no task of the store carries patch material
C25_ReplenishIffNoMaterial ==
  cyc.ended # None =>
    /\ material = {} => cyc.replenished /\ placeholders = backlog_autoreplenish_count
    /\ material # {} => ~cyc.replenished

\* C25: a cycle adds generated tasks only to a store without open tasks,
\* whatever patch material its closed tasks carry; it then adds exactly the
\* configured number and records a backlog_replenished snapshot; and a
\* cycle that leaves a store without open or generated tasks behind has
\* raised, from the generator or from the ledger write
C25_ReplenishIffNoOpenTask ==
  LET NoOpenTask == \A t \in Tasks : status[t] # "open" IN
  cyc.ended # None =>
    /\ cyc.replenished =>
         /\ NoOpenTask
         /\ placeholders = backlog_autoreplenish_count
         /\ history[ReplenishId] # <<>>
         /\ history[ReplenishId][Len(history[ReplenishId])].state = "backlog_replenished"
    /\ (cyc.tid = None /\ NoOpenTask /\ placeholders = 0) => cyc.ended = "raised"

\* a cycle found no open task, although a closed task carries patch
\* material, added the generated tasks and went on to selection
C25_Witness ==
  /\ cyc.replenished
  /\ material # {}
  /\ placeholders = backlog_autoreplenish_count
  /\ cyc.select = "no_tasks"

\* C26: the pipeline does not starve: every cycle that gets to selection,
\* after auto-replenishment when the store had no executable task, has a
\* task to select, and no cycle ends by raising before it has selected one
C26_CycleAlwaysSelects ==
  /\ cyc.select # "no_tasks"
  /\ cyc.ended = "raised" => cyc.tid # None

\* C27: the task selected, by explicit id, interactively or as the first
\* available, is open and carries patch material; first-available selection
\* takes the first such task in store order; and a cycle reports that there
\* are no tasks only when no open task carries patch material
C27_SelectedIsExecutable ==
  /\ (pc = "branch" /\ cyc.select \in {"id", "interactive", "first"}) =>
       /\ status[cyc.tid] = "open"
       /\ cyc.tid \in material
       /\ cyc.select = "first" => cyc.tid = Executable(status, material)[1]
  /\ cyc.select = "no_tasks" => Executable(status, material) = <<>>

\* C28: a build that yields an empty diff is reported apart from a build
\* that fails: neither the result of the cycle nor its last snapshot are
\* those of the generic patch-build failure
C28_EmptyDiffReportedApart ==
  (cyc.build = "empty" /\ cyc.ended = "returned") =>
    /\ run_result # Result("False", "build_patch", "error")
    /\ history[cyc.tid][Len(history[cyc.tid])].state # "failed_build_patch"

\* C30: a cycle that fails at the test stage and has run its rollback with
\* the failure decomposition leaves the failed task blocked, so that it is
\* not among the executable tasks of the next selection
C30_FailedParentBlocked ==
  (cyc.tests = "failure" /\ cyc.ended = "returned" /\ run_result.stage = "test") =>
    /\ status[cyc.tid] = "blocked"
    /\ cyc.tid \notin Range(Executable(status, material))

\* C29: build_patch of a ChangeSet with at least one edit raises or returns
\* a diff that is not empty and has passed the dry run of `git apply
\* --check` on the repository; and it raises whenever the last edit leaves
\* the file as the repository has it, so that the shadow tree shows no
\* difference
C29_BuiltPatchVerified ==
  Len(built.edits) >= 1 =>
    LET r == built.result
        e == built.edits[Len(built.edits)]
        left == IF e.mode = "delete" THEN "absent" ELSE e.after
    IN /\ r.raised = None => r.patch # <<>> /\ r.dry_run
       /\ left = built.tree => r.raised # None

\* build_patch returned the diff of a ChangeSet of two edits after its
\* dry run passed
C29_Witness ==
  /\ Len(built.edits) = 2
  /\ built.result.raised = None
  /\ built.result.patch = <<"x", "y">>
  /\ built.result.dry_run

\* C31: failure remediation is bounded: across any sequence of failures no
\* task of the store is more than max_depth parent links below an
\* originally authored task
C31_RemediationBounded ==
  LET depth[i \in 1..Len(family)] ==
        IF family[i].parent = 0 THEN 0 ELSE 1 + depth[family[i].parent]
  IN \A i \in 1..Len(family) : depth[i] <= max_depth

\* C32: every result run_task_cycle returns carries a success flag, and a
\* result with success false also carries the stage at which the cycle
\* stopped and diagnostic detail
C32_FailureNamesStage ==
  CycleOver /\ cyc.ended = "returned" =>
    /\ run_result.success \in {"True", "False"}
    /\ run_result.success = "False" =>
         run_result.stage # None /\ run_result.detail # None

\* C34: attaching a task starts it with a fresh phase-flag set: right after
\* attach_task no flag of an earlier run is recorded for the attached id
C34_AttachStartsFresh ==
  last.op = "attach_task" /\ current_task # None =>
    phase_flags[current_task] = {}

\* C37: git_commit succeeds for a task only if the most recent test run for
\* the task passed and came after the most recent successful apply; in
\* particular the call just before a successful commit is neither a red test
\* run nor a successful forward apply for that task
C37_CommitNeedsFreshGreen ==
  [][(last'.op = "git_commit" /\ last'.raised = None /\ last'.tid # None) =>
       /\ ~(last.op = "run_pytest" /\ last.ret = "failure" /\ last.tid = last'.tid)
       /\ ~(last.op = "git_apply" /\ ~last.reverse /\ last.raised = None
              /\ last.tid = last'.tid)]_vars

\* C33: a process that asks for the file lock while another holds it gets
\* it or a timeout error after a bounded wait: no process waits for ever, no
\* process is in the guarded section without holding the lock, and a process
\* outside the with statement holds no lock
C33_LockBoundedExclusiveReleased ==
  /\ [](\A p \in 1..MaxProcs : mutex.at[p] = "in" => mutex.holder = p)
  /\ [](\A p \in 1..MaxProcs : mutex.at[p] = "out" => mutex.holder # p)
  /\ \A p \in 1..MaxProcs : (mutex.at[p] = "waiting") ~> (mutex.at[p] # "waiting")

\* C35: a ChangeSet edit whose before_sha does not match the repository (or
\* whose file is missing) makes the build raise before the shadow copy is
\* made; the cycle then ends at the build stage, as a failure, with no later
\* stage run, no reset, and the working tree, the branches and every task's
\* status as they were before the build
C35_ConflictStopsAtBuild ==
  cyc.build = "conflict" =>
    /\ built.result.raised = "RuntimeError"
    /\ ~built.result.copied
    /\ CycleOver
    /\ cyc.ended = "returned" /\ run_result.success = "False"
    /\ cyc.review1 = None /\ ~cyc.apply_called /\ cyc.tests = None /\ ~cyc.commit_made
    /\ cyc.resets = 0
    /\ cyc.at_build = <<work, gone, heads, branch, status>>

\* a cycle ended at the build stage on a fingerprint conflict and returned
\* the failure of the build stage
C35_Witness ==
  /\ cyc.build = "conflict"
  /\ CycleOver
  /\ built.tree = "x"
  /\ run_result = Result("False", "build_patch", "error")

\* C36: after a cycle has committed task A, every remaining open task B
\* with a ChangeSet has its before_sha set to the SHA-1 of the committed
\* content, and B's validation passes against the tree B's cycle builds
\* against, the tree after the branch isolation of B's cycle
C36_PropagatedShaStaysValid ==
  CycleOver /\ cyc.commit_ok /\ run_result.success = "True" =>
    \A B \in Tasks \ {cyc.tid} :
      status[B] = "open" /\ B \in material =>
        LET s1 == git_checkout_branch(ShellState, TaskBranch(B), TRUE, TRUE)
            file == IF Content(s1) \cap Tasks = {} THEN "x" ELSE "y"
        IN /\ before_sha[B] = _sha1_of_file(heads[TaskBranch(cyc.tid)])
           /\ validate_against_repo(file, <<[mode |-> "modify", after |-> "y",
                                             before_sha |-> before_sha[B]]>>)

\* C38: when a cycle is over, its task is done or archived iff the commit
\* for the task was created in the cycle: no task is closed without a
\* commit, and no cycle ends with a commit created and the task still open
C38_ClosedIffCommitted ==
  CycleOver /\ cyc.tid # None =>
    (status[cyc.tid] \in {"done", "archived"} <=> cyc.commit_made)

\* C39: the orchestrator calls git_reset_hard only in a cycle in which the
\* apply has succeeded, so a cycle that never applied its patch leaves what
\* was in the working tree before the cycle
C39_ResetOnlyAfterApply ==
  /\ cyc.resets > 0 => cyc.applied
  /\ CycleOver /\ ~cyc.applied => cyc.start \subseteq Content(ShellState)

\* C40: a rollback leaves the persisted task store and ledger intact: after
\* a cycle that applied its patch and rolled it back, and whose ledger
\* writes all succeeded, the backlog file and the ledger file exist and hold
\* what is in memory
C40_RollbackKeepsStoreFiles ==
  CycleOver /\ cyc.applied /\ cyc.resets > 0 /\ ~cyc.ledger_failed =>
    files.backlog /\ files.ledger

====
